---- MODULE Spec2Model ----
(***************************************************************************)
(* card-game-app: the PickPass and BidWiser engines (logic_pickpass.py,    *)
(* logic_bidwiser.py) and the room / turn orchestration of app.py.         *)
(*                                                                         *)
(* Conventions.                                                            *)
(*  - Python's None and the empty string are both falsy; a missing or      *)
(*    empty identity is the string NoName.  A move slot holding None is    *)
(*    the number None (no card has rank 0).                                *)
(*  - Python lists are sequences; seat indices are kept 0-based as in the  *)
(*    code, seat i being element i + 1 of the sequence.                    *)
(*  - Fractions are kept exact: a probability of predict_opponent_action   *)
(*    is a number of tenths, BidWiser scores are counted in half points,   *)
(*    and bot_move compares utilities over a common denominator.           *)
(*  - Handlers run cooperatively: a handler is atomic up to the            *)
(*    socketio.sleep of check_bot_turn_pickpass, its only yield point.     *)
(*  - Game objects live in a heap indexed by creation order; an object no  *)
(*    room and no suspended loop refers to is reclaimed.                   *)
(***************************************************************************)
EXTENDS Integers, Sequences, FiniteSets, TLC

(* ---- bounds (the source's values in comments) ------------------------- *)
TargetPlayers == 3      \* seats of a PickPass game (5, logic_pickpass.py:104)
MaxCard == 5            \* highest card (35, logic_pickpass.py:92)
CardsRemoved == 1       \* cards removed before the deal (9, logic_pickpass.py:93)
StartChips == 2         \* chips per player (11, logic_pickpass.py:94)
MaxGames == 1           \* games started in a room (Spec)
MaxRestarts == 1        \* further games the host starts over the first (SpecRestart)
MaxLoops == 2           \* check_bot_turn_pickpass calls suspended at once
MaxAfterOver == 1       \* turns applied to a PickPass game after it has ended
NumRanks == 3           \* ranks of a BidWiser hand and of the prizes (13, logic_bidwiser.py:114)
MaxMembers == 3         \* members of a room
MaxHand == 4            \* cards in a list passed to calculate_score

(* ---- program constants ------------------------------------------------ *)
MinCard == 3
RemovedAssumed == 9
ConnectBonus == 15
DeadPenalty == 2
ChipWeight == 12
GreedChips == 8
GreedBias == 3
None == 0

NoName == ""
Truthy(s) == s # NoName

BotNames == <<"Vector", "Matrix", "Tensor", "Scalar", "Logit">>

(* ---- sequences -------------------------------------------------------- *)
RECURSIVE SumSeq(_)
SumSeq(s) == IF s = <<>> THEN 0 ELSE Head(s) + SumSeq(Tail(s))

Range(s) == {s[i] : i \in 1..Len(s)}

\* sorted(cards): the ascending arrangement of s
sorted(s) ==
    LET before(j, i) == s[j] < s[i] \/ (s[j] = s[i] /\ j < i)
        rank(i) == Cardinality({j \in 1..Len(s) : before(j, i)}) + 1
    IN  [k \in 1..Len(s) |-> s[CHOOSE i \in 1..Len(s) : rank(i) = k]]

(* ---- logic_pickpass.py: scoring --------------------------------------- *)
calculate_score(cards) ==
    LET sorted_cards == sorted(cards)
        walk[i \in 0..Len(sorted_cards)] ==
            IF i = 0 THEN 0
            ELSE LET previous == IF i = 1 THEN -1 ELSE sorted_cards[i - 1]
                     card == sorted_cards[i]
                 IN  walk[i - 1] + (IF card # previous + 1 THEN card ELSE 0)
    IN  walk[Len(sorted_cards)]

\* Value of connecting a run, as a numerator over EquityDen(deck_size)
EquityDen(deck_size) == 5 * (deck_size + RemovedAssumed)

get_run_equity(card, hand, deck_size, visible_cards) ==
    LET unknowns == deck_size + RemovedAssumed
        \* n * 0.4 * (1 - 9 / unknowns), over 5 * unknowns
        term(n) == IF n \in Range(hand) THEN ConnectBonus * EquityDen(deck_size)
                   ELSE IF n \in visible_cards THEN -(DeadPenalty * EquityDen(deck_size))
                   ELSE 2 * n * (unknowns - RemovedAssumed)
    IN  term(card - 1) + term(card + 1)

predict_opponent_action_flat(opponent_dict, card, projected_pot) ==
    LET opp_score == calculate_score(opponent_dict.cards)
        opp_new_score == calculate_score(Append(opponent_dict.cards, card))
    IN  IF opponent_dict.chips = 0 THEN 10
        ELSE IF opp_new_score < opp_score THEN 8
        ELSE IF opponent_dict.chips <= 2 /\ projected_pot >= 3 THEN 9
        ELSE IF 2 * projected_pot > card THEN 6
        ELSE 1

\* Probability that an opponent takes the card, in tenths
predict_opponent_action(opponent_dict, card, projected_pot) ==
    LET opp_score == calculate_score(opponent_dict.cards)
        opp_new_score == calculate_score(Append(opponent_dict.cards, card))
    IN  IF opponent_dict.chips = 0 THEN 10
        ELSE IF opp_new_score < opp_score
             THEN (IF opponent_dict.chips < 3 THEN 10 ELSE 8)
        ELSE IF opponent_dict.chips <= 2 /\ projected_pot >= 3 THEN 9
        ELSE IF 2 * projected_pot > card THEN 6
        ELSE 1

(* ---- logic_pickpass.py: PickPassGame ---------------------------------- *)
Player(name, is_human) ==
    [name |-> name, cards |-> <<>>, chips |-> StartChips, is_human |-> is_human]

\* The deals of __init__: the shuffled deck after the removed cards are cut off
Deals ==
    LET n == (MaxCard - MinCard + 1) - CardsRemoved
    IN  {d \in [1..n -> MinCard..MaxCard] : \A i, j \in 1..n : i # j => d[i] # d[j]}

PickPassGame(human_players, deal, start_idx) ==
    LET needed == TargetPlayers - Len(human_players)
        humans == [i \in 1..Len(human_players) |-> Player(human_players[i], TRUE)]
        bots == IF needed > 0
                THEN [i \in 1..needed |-> Player(BotNames[i], FALSE)]
                ELSE <<>>
    IN  [type |-> "pickpass",
         players |-> humans \o bots,
         deck |-> Tail(deal),
         pot |-> 0,
         current_card |-> Head(deal),
         current_player_idx |-> start_idx,
         game_over |-> FALSE,
         leaderboard |-> <<>>]

Current(g) == g.players[g.current_player_idx + 1]

\* diff of bot_move times (chips + 1) * EquityDen * 10^(opponents): the sign decides
bot_move_diff(g) ==
    LET me == Current(g)
        card == g.current_card
        current_score == calculate_score(me.cards)
        new_score == calculate_score(Append(me.cards, card))
        point_delta == new_score - current_score
        \* chip_value = 1 + 12 / (chips + 1) = cvN / cvD
        cvD == me.chips + 1
        cvN == (me.chips + 1) + ChipWeight
        visible_cards == UNION {Range(g.players[i].cards) : i \in 1..Len(g.players)}
        eqD == EquityDen(Len(g.deck))
        gap_bonus == get_run_equity(card, me.cards, Len(g.deck), visible_cards)
        my_seat == g.current_player_idx
        num_players == Len(g.players)
        \* survive[i]: tenths^i of the card passing the first i opponents
        survive[i \in 0..(num_players - 1)] ==
            IF i = 0 THEN 1
            ELSE LET seat == (my_seat + i) % num_players
                     p_take == predict_opponent_action(g.players[seat + 1], card, g.pot + i)
                 IN  survive[i - 1] * (10 - p_take)
        RECURSIVE Pow10(_)
        Pow10(k) == IF k = 0 THEN 1 ELSE 10 * Pow10(k - 1)
        one == Pow10(num_players - 1)
        prob_return == survive[num_players - 1]
        prob_card_dies == one - prob_return
        \* utilities over cvD * eqD
        u_take == -(point_delta * cvD * eqD - g.pot * cvN * eqD - gap_bonus * cvD)
        future_pot == g.pot + num_players
        u_return == -(point_delta * cvD * eqD - future_pot * cvN * eqD - gap_bonus * cvD)
        u_loss == -(cvN * eqD)
        \* over cvD * eqD * one
        u_pass == u_return * prob_return + u_loss * prob_card_dies
        greed_bias == IF me.chips > GreedChips THEN GreedBias ELSE 0
    IN  u_take * one - (u_pass - greed_bias * cvD * eqD * one)

\* The values bot_move can return (True = take).  A diff of exactly zero is
\* decided by floating-point rounding: either value.
bot_move(g) ==
    LET me == Current(g)
    IN  IF me.is_human THEN {FALSE}
        ELSE IF me.chips = 0 THEN {TRUE}
        ELSE IF bot_move_diff(g) > 0 THEN {TRUE}
        ELSE IF bot_move_diff(g) < 0 THEN {FALSE}
        ELSE {TRUE, FALSE}

LeaderboardEntry(p) ==
    LET card_total == calculate_score(p.cards)
    IN  [name |-> p.name, card_total |-> card_total, chips |-> p.chips,
         final_score |-> card_total - p.chips, is_human |-> p.is_human]

\* Fault variant of SortLeaderboard: equal keys come out in reverse order
SortLeaderboard_unstable(s) ==
    LET before(j, i) == \/ s[j].final_score < s[i].final_score
                        \/ (s[j].final_score = s[i].final_score /\ j > i)
        rank(i) == Cardinality({j \in 1..Len(s) : before(j, i)}) + 1
    IN  [k \in 1..Len(s) |-> s[CHOOSE i \in 1..Len(s) : rank(i) = k]]

\* leaderboard.sort(key=final_score): ascending, equal keys keep their order
SortLeaderboard(s) ==
    LET before(j, i) == \/ s[j].final_score < s[i].final_score
                        \/ (s[j].final_score = s[i].final_score /\ j < i)
        rank(i) == Cardinality({j \in 1..Len(s) : before(j, i)}) + 1
    IN  [k \in 1..Len(s) |-> s[CHOOSE i \in 1..Len(s) : rank(i) = k]]

\* Fault variant of end_game: the game is never closed
end_game_skipped(g) == g

end_game(g) ==
    [g EXCEPT !.game_over = TRUE,
              !.leaderboard = SortLeaderboard(
                  [i \in 1..Len(g.players) |-> LeaderboardEntry(g.players[i])])]

\* Fault variant of Take: the pot is paid out but not emptied
Take_keeps_pot(g) ==
    LET i == g.current_player_idx + 1
        g1 == [g EXCEPT !.players[i].cards = Append(@, g.current_card),
                        !.players[i].chips = @ + g.pot,
                        !.current_player_idx = (@ + 1) % Len(g.players)]
    IN  IF g1.deck = <<>> THEN end_game(g1)
        ELSE [g1 EXCEPT !.current_card = Head(g1.deck), !.deck = Tail(g1.deck)]

Take(g) ==
    LET i == g.current_player_idx + 1
        g1 == [g EXCEPT !.players[i].cards = Append(@, g.current_card),
                        !.players[i].chips = @ + g.pot,
                        !.pot = 0,
                        !.current_player_idx = (@ + 1) % Len(g.players)]
    IN  IF g1.deck = <<>> THEN end_game(g1)
        ELSE [g1 EXCEPT !.current_card = Head(g1.deck), !.deck = Tail(g1.deck)]

\* Fault variant of play_turn: a pass is charged a chip whatever the player holds
play_turn_unforced(g, action, player_name_check) ==
    LET current_p == Current(g)
        i == g.current_player_idx + 1
    IN  IF Truthy(player_name_check) /\ current_p.name # player_name_check THEN g
        ELSE IF action = "take" THEN Take(g)
        ELSE IF action = "pass"
             THEN [g EXCEPT !.players[i].chips = @ - 1,
                            !.pot = @ + 1,
                            !.current_player_idx = (@ + 1) % Len(g.players)]
        ELSE g

play_turn(g, action, player_name_check) ==
    LET current_p == Current(g)
        i == g.current_player_idx + 1
    IN  IF Truthy(player_name_check) /\ current_p.name # player_name_check THEN g
        ELSE IF action = "take" THEN Take(g)
        ELSE IF action = "pass"
             THEN IF current_p.chips > 0
                  THEN [g EXCEPT !.players[i].chips = @ - 1,
                                 !.pot = @ + 1,
                                 !.current_player_idx = (@ + 1) % Len(g.players)]
                  ELSE Take(g)
        ELSE g

(* ---- logic_bidwiser.py ------------------------------------------------ *)
\* Fault variant of resolve_round_logic: equal cards are not reported as a tie
resolve_round_logic_no_tie(p1_card, p2_card, current_pot) ==
    IF p1_card > p2_card THEN <<current_pot, 0, FALSE>>
    ELSE IF p2_card > p1_card THEN <<0, current_pot, FALSE>>
    ELSE <<0, 0, FALSE>>

\* <<p1_points, p2_points, is_tie>>
resolve_round_logic(p1_card, p2_card, current_pot) ==
    IF p1_card > p2_card THEN <<current_pot, 0, FALSE>>
    ELSE IF p2_card > p1_card THEN <<0, current_pot, FALSE>>
    ELSE <<0, 0, TRUE>>

SmartBot == [opponent_history |-> [i \in 1..NumRanks |-> <<>>]]

record_move(bot, prize_card, opponent_move) ==
    [bot EXCEPT !.opponent_history[prize_card] = Append(@, opponent_move)]

Without(hand, c) == SelectSeq(hand, LAMBDA x : x # c)

SeqMax(s) == CHOOSE m \in Range(s) : \A x \in Range(s) : x <= m

\* The cards random.choice(best_options) can return.  Scores are in half points,
\* so every term of total_outcome is doubled.
minimax_move(bot_hand, player_hand, current_pot, remaining_prizes, bot_score, player_score) ==
    LET outcome(b, p) ==
            LET r == resolve_round_logic(b, p, current_pot)
                is_tie == r[3]
                current_diff == IF is_tie /\ remaining_prizes = <<>> THEN 0 ELSE r[1] - r[2]
                future_diff == IF remaining_prizes # <<>>
                               THEN SumSeq(Without(bot_hand, b)) - SumSeq(Without(player_hand, p))
                               ELSE 0
            IN  (bot_score - player_score) + 2 * current_diff + 2 * future_diff
        \* min over the replies; float('inf') when the opponent has no card
        Inf == 1000000
        min_utility(b) ==
            IF player_hand = <<>> THEN Inf
            ELSE CHOOSE m \in {outcome(b, player_hand[j]) : j \in 1..Len(player_hand)} :
                     \A j \in 1..Len(player_hand) : m <= outcome(b, player_hand[j])
    IN  {b \in Range(bot_hand) : \A c \in Range(bot_hand) : min_utility(c) <= min_utility(b)}

\* The cards heuristic_move can return over all draws of random.uniform(-0.1, 0.1).
\* Weights and utilities are in tenths; ev(c) = evN(c) / (10 * total_w).
heuristic_move(bot_hand, player_hand, current_pot) ==
    LET effective_val == IF current_pot < 15 THEN current_pot ELSE 15
        dist(c) == IF c >= effective_val THEN c - effective_val ELSE effective_val - c
        weight(c) ==
            IF current_pot > 10
            THEN LET w1 == IF c >= SeqMax(player_hand) - 1 THEN 40 ELSE 10
                 IN  IF c < 5 THEN w1 \div 10 ELSE w1
            ELSE IF dist(c) <= 1 THEN 30 ELSE 10
        total_w == SumSeq([j \in 1..Len(player_hand) |-> weight(player_hand[j])])
        u(my_card, opp_card) ==
            LET r == resolve_round_logic(my_card, opp_card, current_pot)
            IN  IF r[3] THEN -(9 * my_card) ELSE 10 * (r[1] - r[2]) - 8 * my_card
        evN(my_card) ==
            SumSeq([j \in 1..Len(player_hand) |->
                        u(my_card, player_hand[j]) * weight(player_hand[j])])
        \* card i wins the scan iff some jitters put it strictly above every
        \* earlier card and not below any later one: a margin of 0.2
        wins(i) ==
            /\ \A k \in 1..(i - 1) : evN(bot_hand[i]) + 2 * total_w > evN(bot_hand[k])
            /\ \A k \in (i + 1)..Len(bot_hand) : evN(bot_hand[i]) + 2 * total_w >= evN(bot_hand[k])
    IN  {bot_hand[i] : i \in {i \in 1..Len(bot_hand) : wins(i)}}

decide_move(bot_hand, player_hand, current_pot_value, remaining_prizes, bot_score, player_score) ==
    IF Len(bot_hand) <= 6
    THEN minimax_move(bot_hand, player_hand, current_pot_value, remaining_prizes,
                      bot_score, player_score)
    ELSE heuristic_move(bot_hand, player_hand, current_pot_value)

\* The shuffles of the prize queue
PrizeOrders ==
    {q \in [1..NumRanks -> 1..NumRanks] : \A i, j \in 1..NumRanks : i # j => q[i] # q[j]}

\* Fault variant of BidWiserGame: the first prize is shown but left in the queue
BidWiserGame_no_pop(human_players, prizes) ==
    [type |-> "bidwiser",
     prizes |-> prizes,
     p1_name |-> human_players[1],
     p1_hand |-> [i \in 1..NumRanks |-> i],
     p1_score |-> 0,
     p1_move |-> None,
     p2_name |-> IF Len(human_players) > 1 THEN human_players[2] ELSE "DeepGoof (Bot)",
     p2_is_bot |-> ~(Len(human_players) > 1),
     bot |-> IF Len(human_players) > 1 THEN None ELSE SmartBot,
     p2_hand |-> [i \in 1..NumRanks |-> i],
     p2_score |-> 0,
     p2_move |-> None,
     carry_over_pot |-> 0,
     round_history |-> <<>>,
     current_prize |-> Head(prizes),
     game_over |-> FALSE]

BidWiserGame(human_players, prizes) ==
    [type |-> "bidwiser",
     prizes |-> Tail(prizes),
     p1_name |-> human_players[1],
     p1_hand |-> [i \in 1..NumRanks |-> i],
     p1_score |-> 0,
     p1_move |-> None,
     p2_name |-> IF Len(human_players) > 1 THEN human_players[2] ELSE "DeepGoof (Bot)",
     p2_is_bot |-> ~(Len(human_players) > 1),
     bot |-> IF Len(human_players) > 1 THEN None ELSE SmartBot,
     p2_hand |-> [i \in 1..NumRanks |-> i],
     p2_score |-> 0,
     p2_move |-> None,
     carry_over_pot |-> 0,
     round_history |-> <<>>,
     current_prize |-> Head(prizes),
     game_over |-> FALSE]

\* Fault variant of RemoveFirst: the played card stays in the hand
RemoveFirst_keeps(s, c) == s

\* list.remove: the first occurrence
RECURSIVE RemoveFirst(_, _)
RemoveFirst(s, c) ==
    IF s = <<>> THEN <<>>
    ELSE IF Head(s) = c THEN Tail(s)
    ELSE <<Head(s)>> \o RemoveFirst(Tail(s), c)

\* Fault variant of resolve_round: the final split is an integer division
resolve_round_floor_split(g) ==
    LET p1_card == g.p1_move
        p2_card == g.p2_move
        pot_val == g.current_prize + g.carry_over_pot
        r == resolve_round_logic(p1_card, p2_card, pot_val)
        p1_pts == r[1]
        p2_pts == r[2]
        is_tie == r[3]
        g1 == [g EXCEPT !.p1_hand = RemoveFirst(@, p1_card),
                        !.p2_hand = RemoveFirst(@, p2_card)]
        g2 == IF ~is_tie
              THEN IF p1_pts > 0
                   THEN [g1 EXCEPT !.p1_score = @ + 2 * p1_pts, !.carry_over_pot = 0]
                   ELSE [g1 EXCEPT !.p2_score = @ + 2 * p2_pts, !.carry_over_pot = 0]
              ELSE IF g1.prizes = <<>>
                   THEN [g1 EXCEPT !.p1_score = @ + 2 * (pot_val \div 2),
                                   !.p2_score = @ + 2 * (pot_val \div 2),
                                   !.carry_over_pot = 0]
                   ELSE [g1 EXCEPT !.carry_over_pot = @ + g.current_prize]
        result == IF ~is_tie
                  THEN (IF p1_pts > 0 THEN <<g.p1_name, "Wins">> ELSE <<g.p2_name, "Wins">>)
                  ELSE (IF g1.prizes = <<>> THEN <<"Split">> ELSE <<"Tie">>)
        g3 == [g2 EXCEPT !.round_history = Append(@, [prize |-> g.current_prize,
                                                      p1_card |-> p1_card,
                                                      p2_card |-> p2_card,
                                                      result |-> result]),
                         !.p1_move = None,
                         !.p2_move = None]
    IN  IF g3.prizes = <<>>
        THEN [g3 EXCEPT !.game_over = TRUE, !.current_prize = 0]
        ELSE [g3 EXCEPT !.current_prize = Head(g3.prizes), !.prizes = Tail(g3.prizes)]

resolve_round_carry_kept(g) ==
    LET p1_card == g.p1_move
        p2_card == g.p2_move
        pot_val == g.current_prize + g.carry_over_pot
        r == resolve_round_logic(p1_card, p2_card, pot_val)
        p1_pts == r[1]
        p2_pts == r[2]
        is_tie == r[3]
        g1 == [g EXCEPT !.p1_hand = RemoveFirst(@, p1_card),
                        !.p2_hand = RemoveFirst(@, p2_card)]
        g2 == IF ~is_tie
              THEN IF p1_pts > 0
                   THEN [g1 EXCEPT !.p1_score = @ + 2 * p1_pts]
                   ELSE [g1 EXCEPT !.p2_score = @ + 2 * p2_pts]
              ELSE IF g1.prizes = <<>>
                   THEN [g1 EXCEPT !.p1_score = @ + pot_val,
                                   !.p2_score = @ + pot_val,
                                   !.carry_over_pot = 0]
                   ELSE [g1 EXCEPT !.carry_over_pot = @ + g.current_prize]
        result == IF ~is_tie
                  THEN (IF p1_pts > 0 THEN <<g.p1_name, "Wins">> ELSE <<g.p2_name, "Wins">>)
                  ELSE (IF g1.prizes = <<>> THEN <<"Split">> ELSE <<"Tie">>)
        g3 == [g2 EXCEPT !.round_history = Append(@, [prize |-> g.current_prize,
                                                      p1_card |-> p1_card,
                                                      p2_card |-> p2_card,
                                                      result |-> result]),
                         !.p1_move = None,
                         !.p2_move = None]
    IN  IF g3.prizes = <<>>
        THEN [g3 EXCEPT !.game_over = TRUE, !.current_prize = 0]
        ELSE [g3 EXCEPT !.current_prize = Head(g3.prizes), !.prizes = Tail(g3.prizes)]

\* p1_score and p2_score count half points (split = pot_val / 2.0)
resolve_round(g) ==
    LET p1_card == g.p1_move
        p2_card == g.p2_move
        pot_val == g.current_prize + g.carry_over_pot
        r == resolve_round_logic(p1_card, p2_card, pot_val)
        p1_pts == r[1]
        p2_pts == r[2]
        is_tie == r[3]
        g1 == [g EXCEPT !.p1_hand = RemoveFirst(@, p1_card),
                        !.p2_hand = RemoveFirst(@, p2_card)]
        g2 == IF ~is_tie
              THEN IF p1_pts > 0
                   THEN [g1 EXCEPT !.p1_score = @ + 2 * p1_pts, !.carry_over_pot = 0]
                   ELSE [g1 EXCEPT !.p2_score = @ + 2 * p2_pts, !.carry_over_pot = 0]
              ELSE IF g1.prizes = <<>>
                   THEN [g1 EXCEPT !.p1_score = @ + pot_val,
                                   !.p2_score = @ + pot_val,
                                   !.carry_over_pot = 0]
                   ELSE [g1 EXCEPT !.carry_over_pot = @ + g.current_prize]
        result == IF ~is_tie
                  THEN (IF p1_pts > 0 THEN <<g.p1_name, "Wins">> ELSE <<g.p2_name, "Wins">>)
                  ELSE (IF g1.prizes = <<>> THEN <<"Split">> ELSE <<"Tie">>)
        g3 == [g2 EXCEPT !.round_history = Append(@, [prize |-> g.current_prize,
                                                      p1_card |-> p1_card,
                                                      p2_card |-> p2_card,
                                                      result |-> result]),
                         !.p1_move = None,
                         !.p2_move = None]
    IN  IF g3.prizes = <<>>
        THEN [g3 EXCEPT !.game_over = TRUE, !.current_prize = 0]
        ELSE [g3 EXCEPT !.current_prize = Head(g3.prizes), !.prizes = Tail(g3.prizes)]

register_move_bot_seat_open(g, player_name, card) ==
    IF g.game_over THEN {g}
    ELSE
    LET g1 == IF player_name = g.p1_name
              THEN (IF card \in Range(g.p1_hand) THEN [g EXCEPT !.p1_move = card] ELSE g)
              ELSE IF player_name = g.p2_name
              THEN (IF card \in Range(g.p2_hand) THEN [g EXCEPT !.p2_move = card] ELSE g)
              ELSE g
        pot_val == g1.current_prize + g1.carry_over_pot
        g2s == IF g1.p2_is_bot /\ g1.p1_move # None
               THEN {[g1 EXCEPT !.p2_move = c,
                                !.bot = record_move(@, g1.current_prize, g1.p1_move)] :
                       c \in decide_move(g1.p2_hand, g1.p1_hand, pot_val, g1.prizes,
                                         g1.p2_score, g1.p1_score)}
               ELSE {g1}
    IN  {IF g2.p1_move # None /\ g2.p2_move # None THEN resolve_round(g2) ELSE g2 : g2 \in g2s}

register_move_bot_peeks(g, player_name, card) ==
    IF g.game_over THEN {g}
    ELSE
    LET g1 == IF player_name = g.p1_name
              THEN (IF card \in Range(g.p1_hand) THEN [g EXCEPT !.p1_move = card] ELSE g)
              ELSE IF player_name = g.p2_name /\ ~g.p2_is_bot
              THEN (IF card \in Range(g.p2_hand) THEN [g EXCEPT !.p2_move = card] ELSE g)
              ELSE g
        pot_val == g1.current_prize + g1.carry_over_pot
        g2s == IF g1.p2_is_bot /\ g1.p1_move # None
               THEN {[g1 EXCEPT !.p2_move = c,
                                !.bot = record_move(@, g1.current_prize, g1.p1_move)] :
                       c \in decide_move(g1.p2_hand, <<g1.p1_move>>, pot_val, g1.prizes,
                                         g1.p2_score, g1.p1_score)}
               ELSE {g1}
    IN  {IF g2.p1_move # None /\ g2.p2_move # None THEN resolve_round(g2) ELSE g2 : g2 \in g2s}

\* The states register_move can leave the game in (one per choice of the bot)
register_move(g, player_name, card) ==
    IF g.game_over THEN {g}
    ELSE
    LET g1 == IF player_name = g.p1_name
              THEN (IF card \in Range(g.p1_hand) THEN [g EXCEPT !.p1_move = card] ELSE g)
              ELSE IF player_name = g.p2_name /\ ~g.p2_is_bot
              THEN (IF card \in Range(g.p2_hand) THEN [g EXCEPT !.p2_move = card] ELSE g)
              ELSE g
        pot_val == g1.current_prize + g1.carry_over_pot
        g2s == IF g1.p2_is_bot /\ g1.p1_move # None
               THEN {[g1 EXCEPT !.p2_move = c,
                                !.bot = record_move(@, g1.current_prize, g1.p1_move)] :
                       c \in decide_move(g1.p2_hand, g1.p1_hand, pot_val, g1.prizes,
                                         g1.p2_score, g1.p1_score)}
               ELSE {g1}
    IN  {IF g2.p1_move # None /\ g2.p2_move # None THEN resolve_round(g2) ELSE g2 : g2 \in g2s}

\* register_move's return value
register_move_changed(g) == ~g.game_over

(* ---- app.py: the room and its handlers -------------------------------- *)
VARIABLES
    room,     \* ROOMS[code]: players, host, status, game_type, game_instance
    games,    \* the game objects, by creation order (room.game_instance is an index)
    loops,    \* loops[i]: check_bot_turn_pickpass calls asleep holding game i
    last,     \* the handler step that ran last and what it emitted
    afterOver \* afterOver[i]: turns applied to game i after its game_over (bounded)

vars == <<room, games, loops, last, afterOver>>

Free == [type |-> "free"]
\* seat of an event: <<index>> of the player to move, or none
NoSeat == <<>>
Event(kind, sender, action, game, seat, chips) ==
    [kind |-> kind, sender |-> sender, action |-> action, game |-> game,
     seat |-> seat, chips |-> chips]
GameIds == 1..(MaxGames + MaxRestarts)

\* Member lists of a room in the lobby: create_room by Ann, then the joins
MemberLists == {<<"Ann">>, <<"Ann", "Bob">>, <<"Ann", NoName>>}

GameTypes == {"pickpass", "bidwiser", "other"}
Actions == {"take", "pass", "other"}
Cards == 0..NumRanks

Init ==
    /\ \E members \in MemberLists :
          room = [players |-> members, host |-> members[1], status |-> "lobby",
                  game_type |-> "None", game_instance |-> None]
    /\ games = [i \in GameIds |-> Free]
    /\ loops = [i \in GameIds |-> 0]
    /\ last = Event("none", NoName, "none", None, NoSeat, 0)
    /\ afterOver = [i \in GameIds |-> 0]

Senders == Range(room.players)

\* A PickPass turn event records the seat whose turn it was and the chips it held
TurnEvent(kind, sender, action, id) ==
    Event(kind, sender, action, id, <<games[id].current_player_idx>>, Current(games[id]).chips)

TotalLoops == SumSeq(loops)

\* The loop condition of check_bot_turn_pickpass on a state snapshot
BotToMove(g) == ~g.game_over /\ ~Current(g).is_human

\* A game object nothing refers to any more is reclaimed
Reclaim(gs, ls, current) ==
    [i \in GameIds |-> IF i # current /\ ls[i] = 0 THEN Free ELSE gs[i]]

\* Bookkeeping of the bound MaxAfterOver for a play_turn taking game id from g to h
CountAfterOver(id, g, h) ==
    LET n == afterOver[id] + (IF g.game_over /\ h # g THEN 1 ELSE 0)
    IN  /\ n <= MaxAfterOver
        /\ afterOver' = [afterOver EXCEPT ![id] = n]

\* handle_start_game by a sender that is not the host: return
StartGameRejected(username, game_type) ==
    /\ room.host # username
    /\ last' = Event("start_game", username, game_type, None, NoSeat, 0)
    /\ UNCHANGED <<room, games, loops, afterOver>>

\* handle_start_game, pickpass: a new PickPassGame, game_started, then
\* check_bot_turn_pickpass up to its first sleep
StartPickPass(username) ==
    /\ room.host = username
    /\ \E deal \in Deals, start_idx \in 0..(TargetPlayers - 1) :
         LET id == room.game_instance + 1
             g == PickPassGame(room.players, deal, start_idx)
             ls == [loops EXCEPT ![id] = IF BotToMove(g) THEN 1 ELSE 0]
         IN  /\ start_idx < Len(g.players)
             /\ SumSeq(ls) <= MaxLoops
             /\ room' = [room EXCEPT !.game_type = "pickpass", !.status = "playing",
                                     !.game_instance = id]
             /\ loops' = ls
             /\ games' = Reclaim([games EXCEPT ![id] = g], ls, id)
             /\ last' = Event("start_game", username, "pickpass", id, NoSeat, 0)
    /\ UNCHANGED afterOver

\* handle_start_game, bidwiser: a new BidWiserGame, game_started
StartBidWiser(username) ==
    /\ room.host = username
    /\ \E prizes \in PrizeOrders :
         LET id == room.game_instance + 1
         IN  /\ room' = [room EXCEPT !.game_type = "bidwiser", !.status = "playing",
                                     !.game_instance = id]
             /\ games' = Reclaim([games EXCEPT ![id] = BidWiserGame(room.players, prizes)],
                                 loops, id)
             /\ last' = Event("start_game", username, "bidwiser", id, NoSeat, 0)
    /\ UNCHANGED <<loops, afterOver>>

\* handle_start_game, any other game_type: no game is instantiated; get_state is
\* called on the instance the room already holds (on None it raises)
StartOther(username) ==
    /\ room.host = username
    /\ room' = [room EXCEPT !.game_type = "other", !.status = "playing"]
    /\ last' = Event("start_game", username, "other", room.game_instance, NoSeat, 0)
    /\ UNCHANGED <<games, loops, afterOver>>

\* handle_action, pickpass: play_turn with the sender's name, update_game, then
\* check_bot_turn_pickpass up to its first sleep
ActionPickPass(username, action) ==
    /\ room.game_type = "pickpass"
    /\ \E g \in {play_turn(games[room.game_instance], action, username)} :
         LET id == room.game_instance
             ls == [loops EXCEPT ![id] = @ + (IF BotToMove(g) THEN 1 ELSE 0)]
         IN  /\ SumSeq(ls) <= MaxLoops
             /\ CountAfterOver(id, games[id], g)
             /\ games' = [games EXCEPT ![id] = g]
             /\ loops' = ls
             /\ last' = TurnEvent("player_action", username, action, id)
    /\ UNCHANGED room

\* handle_action, bidwiser: register_move, and update_game if it reports a change
ActionBidWiser(username, card) ==
    /\ room.game_type = "bidwiser"
    /\ LET id == room.game_instance
       IN  /\ \E g \in register_move(games[id], username, card) :
                 games' = [games EXCEPT ![id] = g]
           /\ last' = Event("player_action", username,
                            IF register_move_changed(games[id]) THEN "update_game" ELSE "none",
                            id, NoSeat, 0)
    /\ UNCHANGED <<room, loops, afterOver>>

\* check_bot_turn_pickpass, one iteration after the sleep: bot_move, play_turn
\* without a name, update_game, then the loop condition on the returned state
BotTurnWith(id, decisions) ==
    /\ loops[id] > 0
    /\ \E action \in {IF take THEN "take" ELSE "pass" : take \in decisions} :
       \E g \in {play_turn(games[id], action, NoName)} :
         LET ls == [loops EXCEPT ![id] = IF BotToMove(g) THEN @ ELSE @ - 1]
         IN  /\ CountAfterOver(id, games[id], g)
             /\ loops' = ls
             /\ games' = Reclaim([games EXCEPT ![id] = g], ls, room.game_instance)
             /\ last' = TurnEvent("bot_turn", NoName, action, id)
    /\ UNCHANGED room

BotTurn(id) == BotTurnWith(id, bot_move(games[id]))

\* Games may be started while fewer than max_games have been
CanStart(max_games) == room.game_instance < max_games

Handlers(max_games) ==
    \/ \E u \in Senders : CanStart(max_games) /\ StartPickPass(u)
    \/ \E u \in Senders : CanStart(max_games) /\ StartBidWiser(u)
    \/ \E u \in Senders, a \in Actions : ActionPickPass(u, a)
    \/ \E u \in Senders, c \in Cards : ActionBidWiser(u, c)
    \/ \E id \in GameIds : BotTurn(id)

Next ==
    \/ \E u \in Senders, t \in GameTypes : StartGameRejected(u, t)
    \/ \E u \in Senders : StartOther(u)
    \/ Handlers(MaxGames)

Spec == Init /\ [][Next]_vars

\* A room of the host alone, who may start a game over a running one
InitRestart == Init /\ room.players = <<"Ann">>

NextRestart == Handlers(MaxGames + MaxRestarts)

SpecRestart == InitRestart /\ [][NextRestart]_vars

(* ---- one human among bots: the human passes, the bots play anything ---- *)
InitScenario == Init /\ room.players = <<"Ann">>

HumanToMove(g) == ~g.game_over /\ Current(g).is_human

StartScenario == CanStart(MaxGames) /\ StartPickPass("Ann")

HumanPasses ==
    /\ room.game_type = "pickpass"
    /\ HumanToMove(games[room.game_instance])
    /\ ActionPickPass("Ann", "pass")

BotPlays == \E id \in GameIds : BotTurnWith(id, BOOLEAN)

NextScenario == StartScenario \/ HumanPasses \/ BotPlays

SpecScenario ==
    InitScenario /\ [][NextScenario]_vars /\ WF_vars(HumanPasses) /\ WF_vars(BotPlays)

(* ---- the lobby: create_room and join_room ----------------------------- *)
\* ROOMS holds no room under the code
NoRoom == [players |-> <<>>, host |-> NoName, status |-> "absent",
           game_type |-> "None", game_instance |-> None]

\* The code generate_room_code gave the room, and a code of no room
RoomCode == "1234"
Codes == {RoomCode, "0000"}

\* The session usernames of the clients that create or join
JoinNames == {"Ann", "Bob", NoName}

\* str() of an identity inside an f-string
Str(name) == IF name = NoName THEN "None" ELSE name

\* f"{original_name} #{counter}"
Suffixed(original_name, counter) == Str(original_name) \o " #" \o ToString(counter)

\* The while loop of handle_join_room, entered with temp_name among the players
RECURSIVE DedupFrom(_, _, _)
DedupFrom(original_name, players, counter) ==
    LET temp_name == Suffixed(original_name, counter)
    IN  IF temp_name \in Range(players)
        THEN DedupFrom(original_name, players, counter + 1)
        ELSE temp_name

\* Fault variant of DedupName: the suffix is tried once only
DedupName_once(username, players) ==
    IF username \in Range(players) THEN Suffixed(username, 2) ELSE username

DedupName(username, players) ==
    IF username \in Range(players) THEN DedupFrom(username, players, 2) ELSE username

\* What a lobby handler emitted to the sender, with the code it was given
LobbyEvent(kind, sender, code, emit, your_name) ==
    [kind |-> kind, sender |-> sender, action |-> code, game |-> None,
     seat |-> NoSeat, chips |-> 0, emit |-> emit, your_name |-> your_name]

\* Fault variant of handle_join_room: the status of the room is not looked at
handle_join_room_any_status(r, username, code) ==
    IF code = RoomCode /\ r.status # "absent"
    THEN LET name == DedupName(username, r.players)
         IN  [room |-> [r EXCEPT !.players = Append(@, name)],
              emit |-> "room_joined", your_name |-> name]
    ELSE [room |-> r, emit |-> "Invalid Room Code", your_name |-> username]

\* handle_join_room: the room afterwards and the message sent back
handle_join_room(r, username, code) ==
    IF code = RoomCode /\ r.status # "absent"
    THEN IF r.status # "lobby"
         THEN [room |-> r, emit |-> "Game already started!", your_name |-> username]
         ELSE LET name == DedupName(username, r.players)
              IN  [room |-> [r EXCEPT !.players = Append(@, name)],
                   emit |-> "room_joined", your_name |-> name]
    ELSE [room |-> r, emit |-> "Invalid Room Code", your_name |-> username]

\* handle_create_room
CreateRoom(username) ==
    /\ room.status = "absent"
    /\ room' = [players |-> <<username>>, host |-> username, status |-> "lobby",
                game_type |-> "None", game_instance |-> None]
    /\ last' = LobbyEvent("create_room", username, RoomCode, "room_joined", username)
    /\ UNCHANGED <<games, loops, afterOver>>

JoinRoom(username, code) ==
    /\ \E out \in {handle_join_room(room, username, code)} :
          /\ Len(out.room.players) <= MaxMembers
          /\ room' = out.room
          /\ last' = LobbyEvent("join_room", username, code, out.emit, out.your_name)
    /\ UNCHANGED <<games, loops, afterOver>>

InitLobby ==
    /\ room = NoRoom
    /\ games = [i \in GameIds |-> Free]
    /\ loops = [i \in GameIds |-> 0]
    /\ last = Event("none", NoName, "none", None, NoSeat, 0)
    /\ afterOver = [i \in GameIds |-> 0]

NextLobby ==
    \/ \E u \in JoinNames : CreateRoom(u)
    \/ \E u \in JoinNames, code \in Codes : JoinRoom(u, code)
    \/ \E u \in Senders, t \in GameTypes : StartGameRejected(u, t)
    \/ \E u \in Senders : StartOther(u)
    \/ \E u \in Senders : CanStart(MaxGames) /\ StartPickPass(u)
    \/ \E u \in Senders : CanStart(MaxGames) /\ StartBidWiser(u)

SpecLobby == InitLobby /\ [][NextLobby]_vars

\* ---------------------------------------------------------------------------
\* Direct calls of the scoring utilities (src/logic_pickpass.py:7-81)
\* ---------------------------------------------------------------------------
\* Card faces of the deck, and the card lists a player can hold.  A list may
\* hold a face twice: a take after game_over appends current_card again.
Faces == MinCard..MaxCard
CardLists == UNION {[1..n -> Faces] : n \in 0..MaxHand}
\* Chip counts a player or a pot can hold
ChipCounts == 0..(TargetPlayers * StartChips)

\* last, for a call: the function, its arguments and the value returned
Call(kind, args, result) == [kind |-> kind, args |-> args, result |-> result]
\* No call has been made yet
Idle == last.kind = "none"

ScoreCall ==
    /\ Idle
    /\ \E cards \in CardLists :
          last' = Call("calculate_score", <<cards>>, calculate_score(cards))
    /\ UNCHANGED <<room, games, loops, afterOver>>

\* predict_opponent_action reads only 'cards' and 'chips' of the opponent;
\* its result is in tenths
PredictCall ==
    /\ Idle
    /\ \E cards \in CardLists, chips \in ChipCounts, card \in Faces,
          projected_pot \in ChipCounts :
          LET opponent_dict == [cards |-> cards, chips |-> chips]
          IN  last' = Call("predict_opponent_action",
                           <<opponent_dict, card, projected_pot>>,
                           predict_opponent_action(opponent_dict, card, projected_pot))
    /\ UNCHANGED <<room, games, loops, afterOver>>

InitCalls == InitLobby

NextCalls ==
    \/ ScoreCall
    \/ PredictCall

SpecCalls == InitCalls /\ [][NextCalls]_vars

\* ---------------------------------------------------------------------------
\* BidWiser against the bot: the host alone starts the game, and player_action
\* arrives under any session identity (src/app.py:178, 194)
\* ---------------------------------------------------------------------------
Callers == {"Ann", "Bob", NoName, "DeepGoof (Bot)"}

NextBot ==
    \/ CanStart(MaxGames) /\ StartBidWiser("Ann")
    \/ \E u \in Callers, c \in Cards : ActionBidWiser(u, c)

SpecBot == InitRestart /\ [][NextBot]_vars

\* ---------------------------------------------------------------------------
\* PickPass seats: the room is created and joined under the names the login
\* gives (src/app.py:45-56), one of which is also the name of a fill-in bot
\* ---------------------------------------------------------------------------
SeatNames == {"Ann", BotNames[1]}

NextSeats ==
    \/ \E u \in SeatNames : CreateRoom(u)
    \/ \E u \in SeatNames : JoinRoom(u, RoomCode)
    \/ \E u \in Senders : CanStart(MaxGames) /\ StartPickPass(u)
    \/ \E u \in Senders, a \in Actions : ActionPickPass(u, a)
    \/ \E id \in GameIds : BotTurn(id)

SpecSeats == InitLobby /\ [][NextSeats]_vars

(* ======================= properties ==================================== *)
IsPickPass(g) == g.type = "pickpass"
IsBidWiser(g) == g.type = "bidwiser"

\* A step that is the PickPass turn event of the given kind on game id
TurnStep(kind, id) ==
    /\ last'.kind = kind /\ last'.game = id /\ last'.seat # NoSeat
    /\ IsPickPass(games[id])

(* C1: a PickPass player-action whose sender is not the name of the current
   player leaves the whole engine state unchanged, for every non-matching
   sender, a sender with no identity included. *)
C1_OutOfTurnActionIsNoOp ==
    [][\A id \in GameIds :
         (TurnStep("player_action", id) /\ last'.sender # Current(games[id]).name)
             => games'[id] = games[id]]_vars

(* C2: at most one bot-turn loop of the room is active at any time. *)
C2_AtMostOneBotLoop == TotalLoops <= 1

(* C3: the bot-turn loop applies an action only when, at that moment, the
   engine is not terminal and its current player is a bot. *)
C3_BotLoopActsOnlyOnBotSeat ==
    [][\A id \in GameIds :
         (TurnStep("bot_turn", id) /\ games'[id] # games[id])
             => (~games[id].game_over /\ ~Current(games[id]).is_human)]_vars

(* C4: once the room's engine is terminal or has been replaced by a new
   start-game, a loop started earlier applies no action and emits no
   update-game: every iteration of a loop runs on the room's current engine,
   not yet terminal. *)
C4_BotLoopStopsOnEndOrReplace ==
    [][\A id \in GameIds :
         TurnStep("bot_turn", id)
             => (id = room.game_instance /\ ~games[id].game_over)]_vars

(* C5: the leaderboard is empty while game_over is false; game_over never
   turns false again; once game_over is true no take or pass changes the
   leaderboard, a player's cards or chips, or the pot. *)
C5_TerminalStateIsFinal ==
    [][\A id \in GameIds :
         (IsPickPass(games[id]) /\ IsPickPass(games'[id]))
             => /\ ~games'[id].game_over => games'[id].leaderboard = <<>>
                /\ games[id].game_over =>
                      /\ games'[id].game_over
                      /\ games'[id].leaderboard = games[id].leaderboard
                      /\ games'[id].players = games[id].players
                      /\ games'[id].pot = games[id].pot]_vars

\* The leaderboard of g ranks the players of g
SeatOf(g, name) == CHOOSE i \in 1..Len(g.players) : g.players[i].name = name

LeaderboardRanksPlayers(g) ==
    LET lb == g.leaderboard
        seat(k) == SeatOf(g, lb[k].name)
    IN  /\ Len(lb) = Len(g.players)
        /\ \A i \in 1..Len(g.players) : \E k \in 1..Len(lb) : lb[k].name = g.players[i].name
        /\ \A k \in 1..Len(lb) :
              /\ lb[k].final_score =
                     calculate_score(g.players[seat(k)].cards) - g.players[seat(k)].chips
              /\ lb[k].chips = g.players[seat(k)].chips
        /\ \A k, l \in 1..Len(lb) :
              k < l => \/ lb[k].final_score < lb[l].final_score
                       \/ (lb[k].final_score = lb[l].final_score /\ seat(k) < seat(l))

(* C6: when the engine becomes terminal the leaderboard has one entry per
   player, final_score = score(cards) - chips, ascending by final_score,
   equal final_scores in seat order. *)
C6_LeaderboardAtGameEnd ==
    [][\A id \in GameIds :
         (IsPickPass(games[id]) /\ ~games[id].game_over
            /\ IsPickPass(games'[id]) /\ games'[id].game_over)
             => LeaderboardRanksPlayers(games'[id])]_vars

\* a game has just ended with two players level on final_score and one ahead
C6_Witness ==
    \E id \in GameIds :
        /\ IsPickPass(games[id]) /\ games[id].game_over /\ afterOver[id] = 0
        /\ \E k \in 1..(Len(games[id].leaderboard) - 1) :
              games[id].leaderboard[k].final_score = games[id].leaderboard[k + 1].final_score
        /\ \E k \in 1..(Len(games[id].leaderboard) - 1) :
              games[id].leaderboard[k].final_score < games[id].leaderboard[k + 1].final_score

\* What a take does to the game, and when an action is applied
ChipsNonNegative(g) == \A i \in 1..Len(g.players) : g.players[i].chips >= 0

TakeEffect(g, h) ==
    LET i == g.current_player_idx + 1
    IN  /\ h.players[i].cards = Append(g.players[i].cards, g.current_card)
        /\ h.players[i].chips = g.players[i].chips + g.pot
        /\ h.pot = 0
        /\ h.current_player_idx = (g.current_player_idx + 1) % Len(g.players)
        /\ \A j \in 1..Len(g.players) : j # i => h.players[j] = g.players[j]

Applied(id) ==
    last'.kind = "bot_turn" \/ ~Truthy(last'.sender)
        \/ last'.sender = Current(games[id]).name

(* C7: a pass by the current player holding zero chips has exactly the effect
   of a take; no chip count is ever negative; a bot holding zero chips
   decides to take. *)
C7_ZeroChipPassIsTake ==
    [][\A id \in GameIds :
         /\ IsPickPass(games'[id]) => ChipsNonNegative(games'[id])
         /\ (\E k \in {"player_action", "bot_turn"} : TurnStep(k, id))
              /\ Applied(id) /\ last'.action = "pass" /\ Current(games[id]).chips = 0
               => /\ TakeEffect(games[id], games'[id])
                  /\ games'[id] = play_turn(games[id], "take", NoName)
         /\ TurnStep("bot_turn", id) /\ ~Current(games[id]).is_human
              /\ Current(games[id]).chips = 0
               => last'.action = "take"]_vars

\* the player to move held no chip, passed, and was given the card
C7_Witness ==
    /\ last.kind = "player_action" /\ last.action = "pass"
    /\ last.seat # NoSeat /\ last.chips = 0
    /\ LET g == games[last.game]
       IN  /\ g.players[last.seat[1] + 1].name = last.sender
           /\ g.players[last.seat[1] + 1].cards # <<>>
           /\ g.current_player_idx = (last.seat[1] + 1) % Len(g.players)

\* Chips in the game, and what a paid pass does
RECURSIVE ChipsOf(_)
ChipsOf(players) ==
    IF players = <<>> THEN 0 ELSE Head(players).chips + ChipsOf(Tail(players))

ChipsConserved(g) == ChipsOf(g.players) + g.pot = Len(g.players) * StartChips

PassEffect(g, h) ==
    LET i == g.current_player_idx + 1
    IN  /\ h.players[i].chips = g.players[i].chips - 1
        /\ h.pot = g.pot + 1
        /\ \A j \in 1..Len(g.players) : j # i => h.players[j].chips = g.players[j].chips

(* C8: the players' chips plus the pot are (number of players x the starting
   stake) in every state; a pass moves one chip from the acting player to the
   pot, a take moves the whole pot to the acting player, and no other
   player's chips change. *)
C8_ChipConservation ==
    [][\A id \in GameIds :
         /\ IsPickPass(games'[id]) => ChipsConserved(games'[id])
         /\ (IsPickPass(games[id]) /\ IsPickPass(games'[id]) /\ games'[id] # games[id])
               => IF last'.action = "pass" /\ Current(games[id]).chips > 0
                  THEN PassEffect(games[id], games'[id])
                  ELSE TakeEffect(games[id], games'[id])]_vars

\* a take has just moved a pot of at least two chips to the player who took
C8_Witness ==
    /\ last.action = "take" /\ last.seat # NoSeat
    /\ LET g == games[last.game]
       IN  /\ IsPickPass(g)
           /\ g.pot = 0
           /\ g.players[last.seat[1] + 1].chips >= last.chips + 2
           /\ g.current_player_idx = (last.seat[1] + 1) % Len(g.players)

\* Cards dealt and cards won
DealtCards == (MaxCard - MinCard + 1) - CardsRemoved

RECURSIVE CardsWon(_)
CardsWon(players) ==
    IF players = <<>> THEN 0 ELSE Len(Head(players).cards) + CardsWon(Tail(players))

TakesCounted ==
    \A id \in GameIds : IsPickPass(games[id]) =>
        /\ games[id].pot <= Len(games[id].players) * StartChips
        /\ games[id].game_over => CardsWon(games[id].players) = DealtCards
        /\ ~games[id].game_over => CardsWon(games[id].players) < DealtCards

Started == room.status = "playing"
Ended == Started /\ games[room.game_instance].game_over

(* C9: with one human who passes whenever it is their turn and bots that
   take or pass arbitrarily, under fair scheduling the game reaches game_over,
   after exactly as many takes as cards were dealt, and the passes since the
   last take never exceed the chips in the game. *)
C9_ScenarioTerminates == []TakesCounted /\ (Started ~> Ended)

C9_Witness ==
    /\ room.status = "playing"
    /\ games[room.game_instance].game_over
    /\ CardsWon(games[room.game_instance].players) = DealtCards
    /\ \E i \in 1..Len(games[room.game_instance].players) :
          games[room.game_instance].players[i].is_human
            /\ games[room.game_instance].players[i].chips = 0

(* C10: over a round resolution carry_over grows, by exactly the current
   prize, only when the round is a tie and prizes remain in the queue; it is 0
   after a decisive round and after a final-round split; no other step
   changes it. *)
C10_CarryOver ==
    [][\A id \in GameIds :
         (IsBidWiser(games[id]) /\ IsBidWiser(games'[id]))
            => LET g == games[id]
                   h == games'[id]
               IN  IF Len(h.round_history) = Len(g.round_history) + 1
                   THEN LET r == h.round_history[Len(h.round_history)]
                        IN  IF r.p1_card = r.p2_card /\ g.prizes # <<>>
                            THEN h.carry_over_pot = g.carry_over_pot + g.current_prize
                            ELSE h.carry_over_pot = 0
                   ELSE h.carry_over_pot = g.carry_over_pot /\ h.round_history = g.round_history]_vars

\* two tied rounds have been carried over, or a carried-over pot has just been won
C10_Witness ==
    \E id \in GameIds :
        /\ IsBidWiser(games[id])
        /\ Len(games[id].round_history) >= 2
        /\ LET n == Len(games[id].round_history)
               r1 == games[id].round_history[n - 1]
               r2 == games[id].round_history[n]
           IN  /\ r1.p1_card = r1.p2_card
               /\ r2.p1_card # r2.p2_card
               /\ games[id].carry_over_pot = 0
               /\ games[id].p1_score + games[id].p2_score >= 2 * (r1.prize + r2.prize)

\* The round a BidWiser step has just resolved, if it resolved one
Resolved(g, h) == Len(h.round_history) = Len(g.round_history) + 1
LastRound(h) == h.round_history[Len(h.round_history)]

\* hand h is hand g less the one card c
LostOnly(g, h, c) ==
    /\ c \in Range(g)
    /\ Len(h) = Len(g) - 1
    /\ h = SelectSeq(g, LAMBDA x : x # c)

HandsInStep(g) ==
    /\ Len(g.p1_hand) = NumRanks - Len(g.round_history)
    /\ Len(g.p2_hand) = NumRanks - Len(g.round_history)
    /\ \A i, j \in 1..Len(g.round_history) :
          i # j => /\ g.round_history[i].p1_card # g.round_history[j].p1_card
                   /\ g.round_history[i].p2_card # g.round_history[j].p2_card

(* C11: a round resolution removes from each hand exactly the card that
   participant played and nothing else, no other step changes a hand, no
   participant plays a card in two rounds, and both hands have size
   (ranks - resolved rounds). *)
C11_HandsLoseThePlayedCard ==
    [][\A id \in GameIds :
         (IsBidWiser(games[id]) /\ IsBidWiser(games'[id]))
            => LET g == games[id]
                   h == games'[id]
               IN  /\ HandsInStep(h)
                   /\ IF Resolved(g, h)
                      THEN /\ LostOnly(g.p1_hand, h.p1_hand, LastRound(h).p1_card)
                           /\ LostOnly(g.p2_hand, h.p2_hand, LastRound(h).p2_card)
                      ELSE h.p1_hand = g.p1_hand /\ h.p2_hand = g.p2_hand]_vars

\* two rounds resolved between two humans who played different cards throughout
C11_Witness ==
    \E id \in GameIds :
        /\ IsBidWiser(games[id]) /\ ~games[id].p2_is_bot
        /\ Len(games[id].round_history) = 2
        /\ \A i \in 1..2 : games[id].round_history[i].p1_card # games[id].round_history[i].p2_card
        /\ Len(games[id].p1_hand) = NumRanks - 2

(* C12: when the round resolved on an empty prize queue is a tie, each
   participant gains half of the round's full pot (current prize plus
   carry-over), the two gains sum to the full pot, and carry-over ends at 0.
   Scores are in half points, so half a pot of n points is n. *)
C12_FinalSplit ==
    [][\A id \in GameIds :
         (IsBidWiser(games[id]) /\ IsBidWiser(games'[id])
            /\ Resolved(games[id], games'[id])
            /\ games[id].prizes = <<>>
            /\ LastRound(games'[id]).p1_card = LastRound(games'[id]).p2_card)
            => LET g == games[id]
                   h == games'[id]
                   full_pot == g.current_prize + g.carry_over_pot
               IN  /\ h.p1_score - g.p1_score = full_pot
                   /\ h.p2_score - g.p2_score = full_pot
                   /\ (h.p1_score - g.p1_score) + (h.p2_score - g.p2_score) = 2 * full_pot
                   /\ h.carry_over_pot = 0]_vars

\* a game has ended on a tie that split an odd pot carried over from a tied round
C12_Witness ==
    \E id \in GameIds :
        /\ IsBidWiser(games[id]) /\ games[id].game_over
        /\ LET n == Len(games[id].round_history)
               r1 == games[id].round_history[n - 1]
               r2 == games[id].round_history[n]
           IN  /\ r1.p1_card = r1.p2_card
               /\ r2.p1_card = r2.p2_card
               /\ (r1.prize + r2.prize) % 2 = 1
               /\ games[id].carry_over_pot = 0
               /\ games[id].p1_score + games[id].p2_score >= 2 * (r1.prize + r2.prize)

\* The prizes of the rounds resolved so far
HistoryPrizes(g) == [i \in 1..Len(g.round_history) |-> g.round_history[i].prize]

\* s lists each rank exactly once
EachRankOnce(s) == Len(s) = NumRanks /\ Range(s) = 1..NumRanks

(* C13: game_over is true exactly when as many rounds as there are ranks have
   been resolved; then both hands are empty, the history's prizes are the
   ranks each exactly once and current_prize is 0; while game_over is false
   current_prize is a rank that is neither in the remaining queue nor in the
   history. *)
C13_GameLength ==
    \A id \in GameIds :
        IsBidWiser(games[id]) =>
            LET g == games[id]
            IN  /\ g.game_over <=> Len(g.round_history) = NumRanks
                /\ g.game_over =>
                      /\ g.p1_hand = <<>> /\ g.p2_hand = <<>>
                      /\ EachRankOnce(HistoryPrizes(g))
                      /\ g.current_prize = 0
                /\ ~g.game_over =>
                      /\ g.current_prize \in 1..NumRanks
                      /\ g.current_prize \notin Range(g.prizes)
                      /\ g.current_prize \notin Range(HistoryPrizes(g))
                      /\ EachRankOnce(HistoryPrizes(g) \o <<g.current_prize>> \o g.prizes)

\* a game against the bot has ended after every rank was offered
C13_Witness ==
    \E id \in GameIds :
        /\ IsBidWiser(games[id]) /\ games[id].p2_is_bot /\ games[id].game_over
        /\ Len(games[id].round_history) = NumRanks
        /\ games[id].p1_hand = <<>>

\* Nothing of the room or of its engines changes in the step
RoomUntouched == room' = room /\ games' = games /\ loops' = loops

\* A join-room step, by the code it was given
JoinStep == last' # last /\ last'.kind = "join_room"
KnownCode(code) == code = RoomCode /\ room.status # "absent"

(* C14: a join-room with an unknown code, a join-room on a room whose status
   is not lobby, and a start-game by a sender that is not the host each leave
   the member list, host, status, variant and engine instance unchanged; the
   two join cases answer with their error message. *)
C14_MisuseLeavesRoomUnchanged ==
    [][/\ (JoinStep /\ ~KnownCode(last'.action))
            => RoomUntouched /\ last'.emit = "Invalid Room Code"
       /\ (JoinStep /\ KnownCode(last'.action) /\ room.status # "lobby")
            => RoomUntouched /\ last'.emit = "Game already started!"
       /\ (last' # last /\ last'.kind = "start_game" /\ last'.sender # room.host)
            => RoomUntouched]_vars

\* a join was refused on a started room of two members
C14_Witness ==
    /\ last.kind = "join_room" /\ last.action = RoomCode
    /\ last.emit = "Game already started!"
    /\ room.status = "playing" /\ room.game_instance # None
    /\ Len(room.players) = 2

\* The member names are pairwise distinct and the host is the first of them
MembersDistinct(r) ==
    /\ \A i, j \in 1..Len(r.players) : i # j => r.players[i] # r.players[j]
    /\ r.status # "absent" => r.host = r.players[1]

\* name is what a join by username adds to players: username itself, or the
\* first "<username> #k", k = 2, 3, ..., that is not a member yet
FirstFreeName(username, players, name) ==
    IF username \notin Range(players) THEN name = username
    ELSE \E k \in 2..(Len(players) + 2) :
            /\ name = Suffixed(username, k)
            /\ name \notin Range(players)
            /\ \A j \in 2..(k - 1) : Suffixed(username, j) \in Range(players)

(* C15: after any sequence of create-room and join-room the member names are
   pairwise distinct and the host is the first entry; a join adds the sender's
   name, or, when that name is already a member, the first name
   '<name> #k' (k = 2, 3, ...) that is not yet a member. *)
C15_MemberNamesDistinct ==
    [][/\ MembersDistinct(room')
       /\ (JoinStep /\ last'.emit = "room_joined")
            => /\ room'.players = Append(room.players, last'.your_name)
               /\ FirstFreeName(last'.sender, room.players, last'.your_name)
               /\ room'.host = room.host]_vars

\* the same name joined the host's room twice
C15_Witness ==
    /\ room.players = <<"Ann", "Ann #2", "Ann #3">>
    /\ room.host = "Ann"
    /\ last.kind = "join_room" /\ last.sender = "Ann" /\ last.your_name = "Ann #3"

\* The room holds an engine of the variant, built over its members
EngineOf(r, gs, variant) ==
    /\ r.game_instance # None
    /\ gs[r.game_instance].type = variant
    /\ variant = "pickpass" =>
          \A i \in 1..Len(r.players) :
              /\ i <= Len(gs[r.game_instance].players)
              /\ gs[r.game_instance].players[i].name = r.players[i]
    /\ variant = "bidwiser" => gs[r.game_instance].p1_name = r.players[1]

(* C16: after any start-game event either the room is unchanged or its status
   is playing and one engine of the requested variant is instantiated over the
   current members; the room is never left with status playing and no engine
   instance. *)
C16_StartGameIsAtomic ==
    [][(last' # last /\ last'.kind = "start_game")
          => \/ room' = room /\ games' = games
             \/ /\ room'.status = "playing"
                /\ room'.game_type = last'.action
                /\ room'.players = room.players
                /\ EngineOf(room', games', last'.action)]_vars

\* Sum of the cards c of the list whose predecessor c-1 is not in the list
CountedSum(cards) ==
    SumSeq([i \in 1..Len(cards) |->
               IF (cards[i] - 1) \in Range(cards) THEN 0 ELSE cards[i]])

\* Every rearrangement of s
Perms(s) == {[i \in 1..Len(s) |-> s[p[i]]] : p \in Permutations(1..Len(s))}

\* C17: calculate_score(cards) is the sum of exactly the cards c with c-1 not
\* in the collection (only the lowest card of each maximal run counts), 0 for
\* the empty collection, and the same for every permutation of the input.
C17_ScoreCountsRunStarts ==
    last.kind = "calculate_score" =>
        LET cards == last.args[1]
        IN  /\ last.result = CountedSum(cards)
            /\ (cards = <<>> => last.result = 0)
            /\ \A q \in Perms(cards) : calculate_score(q) = last.result

\* The card would lower the opponent's score
Lowers(opponent_dict, card) ==
    calculate_score(Append(opponent_dict.cards, card)) < calculate_score(opponent_dict.cards)

PredictCalled == last.kind = "predict_opponent_action"

\* C18 (as stated): predict_opponent_action returns 1.0 if the opponent has
\* zero chips; else 0.8 if the card would lower the opponent's score and the
\* opponent holds under 3 chips; else 0.9 if the opponent holds at most 2 chips
\* and the projected pot is at least 3; else 0.6 if the projected pot exceeds
\* half the card's face value; otherwise 0.1 (results in tenths).
C18_StatedTable ==
    PredictCalled =>
        LET opp == last.args[1]
            card == last.args[2]
            projected_pot == last.args[3]
        IN  last.result =
                IF opp.chips = 0 THEN 10
                ELSE IF Lowers(opp, card) /\ opp.chips < 3 THEN 8
                ELSE IF opp.chips <= 2 /\ projected_pot >= 3 THEN 9
                ELSE IF 2 * projected_pot > card THEN 6
                ELSE 1

\* C18 (amended): predict_opponent_action returns 1.0 if the opponent has
\* zero chips; else, if the card would lower the opponent's score, 1.0 when the
\* opponent holds under 3 chips and 0.8 otherwise; else 0.9 if the opponent
\* holds at most 2 chips and the projected pot is at least 3; else 0.6 if the
\* projected pot exceeds half the card's face value; otherwise 0.1.
C18_PredictTable ==
    PredictCalled =>
        LET opp == last.args[1]
            card == last.args[2]
            projected_pot == last.args[3]
        IN  last.result =
                IF opp.chips = 0 THEN 10
                ELSE IF Lowers(opp, card) /\ opp.chips < 3 THEN 10
                ELSE IF Lowers(opp, card) THEN 8
                ELSE IF opp.chips <= 2 /\ projected_pot >= 3 THEN 9
                ELSE IF 2 * projected_pot > card THEN 6
                ELSE 1

\* A call for an opponent with one or two chips whose score the card lowers
C18_Witness ==
    /\ PredictCalled
    /\ last.args[1].chips \in 1..2
    /\ Lowers(last.args[1], last.args[2])
    /\ last.result = 10

\* C19: register_move records a card only if it is in the sender's hand and
\* the sender has not already played this round: once a participant's pending
\* move is set, a later register_move from the same identity before the round
\* resolves does not change that pending move.
C19_PendingMoveIsKept ==
    [][\A id \in GameIds :
         (IsBidWiser(games[id]) /\ room.game_instance = id
          /\ last'.kind = "player_action" /\ last'.game = id)
         => LET g == games[id]
                h == games'[id]
                u == last'.sender
            IN  /\ (u = g.p1_name /\ g.p1_move # None) => h.p1_move = g.p1_move
                /\ (u # g.p1_name /\ u = g.p2_name /\ ~g.p2_is_bot /\ g.p2_move # None)
                      => h.p2_move = g.p2_move
                /\ (h.p1_move # None /\ h.p1_move # g.p1_move)
                      => h.p1_move \in Range(g.p1_hand)
                /\ (h.p2_move # None /\ h.p2_move # g.p2_move)
                      => h.p2_move \in Range(g.p2_hand)]_vars

\* What a register_move(u, c) call does to a game against the bot
BotRoundEffect(g, h, u, c) ==
    IF u = g.p1_name /\ c \in Range(g.p1_hand) /\ ~g.game_over
    THEN /\ Len(h.round_history) = Len(g.round_history) + 1
         /\ SubSeq(h.round_history, 1, Len(g.round_history)) = g.round_history
         /\ LastRound(h).p1_card = c
         /\ h.p1_move = None /\ h.p2_move = None
    ELSE h = g

NoPendingMove(g) == g.p1_move = None /\ g.p2_move = None

\* C20: against a bot, every register_move by the first participant with a
\* card in their hand (game not over) appends exactly one round to the history
\* within the call and returns with both pending moves unset; a call with a
\* card not in hand, or from any other identity, changes nothing; so no state
\* between calls has a pending move.
C20_BotRoundIsSynchronous ==
    [][\A id \in GameIds :
         /\ (IsBidWiser(games'[id]) /\ games'[id].p2_is_bot) => NoPendingMove(games'[id])
         /\ (IsBidWiser(games[id]) /\ games[id].p2_is_bot /\ room.game_instance = id)
               => \A u \in Callers, c \in Cards :
                     ActionBidWiser(u, c) => BotRoundEffect(games[id], games'[id], u, c)]_vars

\* The first participant has just played a card of their hand against the bot
C20_Witness ==
    /\ room.game_type = "bidwiser"
    /\ last.kind = "player_action" /\ last.sender = "Ann"
    /\ LET g == games[room.game_instance]
       IN  /\ g.p2_is_bot /\ ~g.game_over
           /\ Len(g.round_history) = 1
           /\ NoPendingMove(g)

\* Sum of all prizes (91 for ranks 1..13)
PrizeTotal == SumSeq([i \in 1..NumRanks |-> i])

\* Scores are kept in half points
PrizesHeld(g) ==
    g.p1_score + g.p2_score
        + 2 * (g.carry_over_pot + g.current_prize + SumSeq(g.prizes))

\* C21: in every reachable state of a BidWiser game, p1_score + p2_score +
\* carry_over + current_prize + the sum of the prizes still in the queue is
\* the sum of all prizes (91); at game_over the two scores sum to it.
C21_PrizeConservation ==
    \A id \in GameIds :
        IsBidWiser(games[id]) =>
            /\ PrizesHeld(games[id]) = 2 * PrizeTotal
            /\ games[id].game_over =>
                   games[id].p1_score + games[id].p2_score = 2 * PrizeTotal

\* A finished game in which a tied round carried its prize over
C21_Witness ==
    \E id \in GameIds :
        /\ IsBidWiser(games[id])
        /\ games[id].game_over
        /\ \E k \in 1..Len(games[id].round_history) :
               games[id].round_history[k].result = <<"Tie">>
        /\ games[id].p1_score + games[id].p2_score = 2 * PrizeTotal

\* The game once the first participant has committed card c
\* (src/logic_bidwiser.py:172-173)
Commit(g, c) == [g EXCEPT !.p1_move = c]

\* The arguments register_move hands to decide_move (src/logic_bidwiser.py:178-182)
DecideInputs(g) ==
    <<g.p2_hand, g.p1_hand, g.current_prize + g.carry_over_pot, g.prizes,
      g.p2_score, g.p1_score>>

\* The cards the bot can answer with when the first participant plays c
BotReplies(g, c) == {LastRound(h).p2_card : h \in register_move(g, g.p1_name, c)}

\* C22: against the bot, the inputs from which the bot's card is decided (bot
\* hand, opponent hand, pot, remaining prizes, both scores) are the same for
\* any two cards the human could commit in the same state, so the bot's choice
\* does not depend on the human's card of the current round.
C22_BotDoesNotSeeTheCard ==
    \A id \in GameIds :
        (IsBidWiser(games[id]) /\ games[id].p2_is_bot /\ ~games[id].game_over) =>
            \A c1, c2 \in Range(games[id].p1_hand) :
                /\ DecideInputs(Commit(games[id], c1)) = DecideInputs(Commit(games[id], c2))
                /\ BotReplies(games[id], c1) = BotReplies(games[id], c2)
                /\ BotReplies(games[id], c1) # {}

\* A bot game in its second round: the bot has recorded the human's first
\* card and the human still has two cards to choose from
C22_Witness ==
    \E id \in GameIds :
        /\ IsBidWiser(games[id]) /\ games[id].p2_is_bot
        /\ Len(games[id].round_history) = 1
        /\ Len(games[id].p1_hand) = 2
        /\ \E k \in 1..NumRanks : games[id].bot.opponent_history[k] # <<>>

\* All cards of the won piles, one after the other
RECURSIVE WonPiles(_)
WonPiles(players) ==
    IF players = <<>> THEN <<>> ELSE Head(players).cards \o WonPiles(Tail(players))

NoCardTwice(s) == \A i, j \in 1..Len(s) : i # j => s[i] # s[j]

\* C23: in every reachable state of a PickPass game each card appears at most
\* once across all players' won piles, no card of a won pile is also in the
\* draw pile, and the won piles, the draw pile and the face-up card together
\* hold at most the dealt cards (24).
C23_CardUniqueness ==
    \A id \in GameIds :
        IsPickPass(games[id]) =>
            LET g == games[id]
                won == WonPiles(g.players)
            IN  /\ NoCardTwice(won)
                /\ Range(won) \cap Range(g.deck) = {}
                /\ Cardinality(Range(won) \cup Range(g.deck) \cup {g.current_card})
                       <= DealtCards
                /\ Len(won) + Len(g.deck) <= DealtCards

SeatNamesDistinct(g) ==
    \A i, j \in 1..Len(g.players) : i # j => g.players[i].name # g.players[j].name

\* C24: the names of all seats of a PickPass engine (human members plus the
\* fill-in bots) are pairwise distinct for every member list the room layer
\* can produce, so the name-based turn check never lets a human's
\* player-action be applied on a bot's turn.
C24_SeatNamesUnambiguous ==
    [][\A id \in GameIds :
         /\ IsPickPass(games'[id]) => SeatNamesDistinct(games'[id])
         /\ (TurnStep("player_action", id) /\ games'[id] # games[id])
               => Current(games[id]).is_human]_vars

====
